---- MODULE Spec2Model ----
(***************************************************************************)
(* The ftrace configuration multiplexer of perfetto                        *)
(* (src/src/ftrace_reader/ftrace_config_muxer.cc) as a state machine.      *)
(*                                                                         *)
(* The muxer's fields (configs_, current_state_, last_id_) are variables;  *)
(* the tracing control surface (FtraceProcfs), the event catalog           *)
(* (ProtoTranslationTable) and the atrace helper are the environment.      *)
(* Every entry point is one action.  An entry point is computed by         *)
(* threading a record m (the muxer's fields, the kernel-side state, the    *)
(* calls issued so far and the locals of the call) through one operator    *)
(* per block of the source.                                                *)
(***************************************************************************)
EXTENDS Integers, Sequences, FiniteSets, TLC

VARIABLES
    configs,          \* configs_: FtraceConfigId -> accepted event_names
    current_state,    \* current_state_: ftrace_events, tracing_on, atrace_on,
                      \*                 cpu_buffer_size_pages
    last_id,          \* last_id_
    os_android,       \* PERFETTO_BUILDFLAG(PERFETTO_OS_ANDROID) of this build
    dcheck_on,        \* whether this build compiles PERFETTO_DCHECK in
    alive,            \* FALSE once a PERFETTO_CHECK / PERFETTO_DCHECK aborted
    kernel,           \* what the control surface holds: tracing_on, events,
                      \*   clock, available_clocks, buffer_pages
    last,             \* the last operation: op, arguments, result, calls
    issued,           \* history: the ids returned by accepted requests
    enabled_by_muxer, \* history: events some EnableEvent call succeeded for
    disable_failed,   \* history: some DisableEvent call returned false
    buffer_call       \* a call of ComputeCpuBufferSizeInPages: its argument
                      \*   and, once it returned, its result

vars == <<configs, current_state, last_id, os_android, dcheck_on, alive,
          kernel, last, issued, enabled_by_muxer, disable_failed, buffer_call>>

(***************************************************************************)
(* Bounds of the model.                                                    *)
(***************************************************************************)
\* RequestConfig is not called any more once last_id_ reached MaxId.
MaxId == 2
\* The largest requested_buffer_size_kb ComputeCpuBufferSizeInPages is
\* called with.
MaxBufferKb == 2100

(***************************************************************************)
(* Program constants.                                                      *)
(***************************************************************************)
kDefaultPerCpuBufferSizeKb == 512
kMaxPerCpuBufferSizeKb == 2048
\* base::kPageSize / 1024
kPageSizeKb == 4
kClocks == <<"boot", "global", "local">>

(***************************************************************************)
(* The event catalog (ProtoTranslationTable::GetEventByName).              *)
(***************************************************************************)
\* The names a request may carry, in the order of std::set<std::string>.
SortedNames == <<"does_not_exist", "print", "sched_switch", "sched_wakeup">>
Names == {SortedNames[i] : i \in 1..Len(SortedNames)}

NoEvent == [group |-> "", name |-> ""]

GetEventByName(name) ==
    CASE name = "print"        -> [group |-> "ftrace", name |-> "print"]
      [] name = "sched_switch" -> [group |-> "sched", name |-> "sched_switch"]
      [] name = "sched_wakeup" -> [group |-> "sched", name |-> "sched_wakeup"]
      [] OTHER                 -> NoEvent

\* The events the kernel toggles one by one.
ToggledEvents ==
    {n \in Names : GetEventByName(n) # NoEvent /\ GetEventByName(n).group # "ftrace"}

(***************************************************************************)
(* Calls on the control surface and on the atrace helper, as recorded in   *)
(* m.calls in the order they are issued.                                   *)
(***************************************************************************)
CallRec(f, name, n, ok, args) ==
    [f |-> f, name |-> name, n |-> n, ok |-> ok, args |-> args]

Call(m, c) == [m EXCEPT !.calls = Append(@, c)]

\* PERFETTO_CHECK / a failing PERFETTO_DCHECK: the process aborts here.
Abort(m) == [m EXCEPT !.alive = FALSE]

IsTracingEnabled(m) == m.kernel.tracing_on

EnableTracing(m) ==
    Call([m EXCEPT !.kernel.tracing_on = TRUE],
         CallRec("EnableTracing", "", 0, TRUE, <<>>))

DisableTracing(m) ==
    Call([m EXCEPT !.kernel.tracing_on = FALSE],
         CallRec("DisableTracing", "", 0, TRUE, <<>>))

SetCpuBufferSizeInPages(m, pages) ==
    Call([m EXCEPT !.kernel.buffer_pages = pages],
         CallRec("SetCpuBufferSizeInPages", "", pages, TRUE, <<>>))

DisableAllEvents(m) ==
    Call([m EXCEPT !.kernel.events = {}],
         CallRec("DisableAllEvents", "", 0, TRUE, <<>>))

ClearTrace(m) == Call(m, CallRec("ClearTrace", "", 0, TRUE, <<>>))

SetClock(m, clock) ==
    Call([m EXCEPT !.kernel.clock = clock],
         CallRec("SetClock", clock, 0, TRUE, <<>>))

\* ok is the answer of the kernel to this write.
EnableEvent(m, event, ok) ==
    Call([m EXCEPT !.kernel.events = IF ok THEN @ \cup {event.name} ELSE @],
         CallRec("EnableEvent", event.name, 0, ok, <<>>))

DisableEvent(m, event, ok) ==
    Call([m EXCEPT !.kernel.events = IF ok THEN @ \ {event.name} ELSE @],
         CallRec("DisableEvent", event.name, 0, ok, <<>>))

\* RunAtrace: fork, execv /system/bin/atrace, waitpid; ok iff status == 0.
RunAtrace(m, args, ok) == Call(m, CallRec("RunAtrace", args[2], 0, ok, args))

(***************************************************************************)
(* Helpers of the translation unit.                                        *)
(***************************************************************************)
\* A std::set<std::string> in iteration order.
InOrder(s) == SelectSeq(SortedNames, LAMBDA n : n \in s)

\* Mutant: the second range is ignored.
difference_IgnoresSecond(a, b) == InOrder(a)

\* std::set_difference of two sorted ranges, into a vector.
difference(a, b) == SelectSeq(InOrder(a), LAMBDA n : n \notin b)

RequiresAtrace(request) ==
    request.atrace_categories # <<>> \/ request.atrace_apps # <<>>

GetFtraceEvents(request) ==
    request.event_names \cup (IF RequiresAtrace(request) THEN {"print"} ELSE {})

\* Mutant: a size above the ceiling is cut to the ceiling.
ComputeCpuBufferSizeInPages_ClampsToMax(requested_buffer_size_kb) ==
    LET kb1 == IF requested_buffer_size_kb = 0
               THEN kDefaultPerCpuBufferSizeKb ELSE requested_buffer_size_kb
        kb2 == IF kb1 > kMaxPerCpuBufferSizeKb
               THEN kMaxPerCpuBufferSizeKb ELSE kb1
        pages == kb2 \div kPageSizeKb
    IN IF pages = 0 THEN 1 ELSE pages

ComputeCpuBufferSizeInPages(requested_buffer_size_kb) ==
    LET kb1 == IF requested_buffer_size_kb = 0
               THEN kDefaultPerCpuBufferSizeKb ELSE requested_buffer_size_kb
        kb2 == IF kb1 > kMaxPerCpuBufferSizeKb
               THEN kDefaultPerCpuBufferSizeKb ELSE kb1
        pages == kb2 \div kPageSizeKb
    IN IF pages = 0 THEN 1 ELSE pages

(***************************************************************************)
(* Cold-start setup.                                                       *)
(***************************************************************************)
\* Mutant: when the preferred clock is the current one the loop goes on.
RECURSIVE SetupClockFrom_ContinuesPastCurrent(_, _)
SetupClockFrom_ContinuesPastCurrent(m, i) ==
    IF i > Len(kClocks) THEN m
    ELSE IF kClocks[i] \notin m.kernel.available_clocks
         THEN SetupClockFrom_ContinuesPastCurrent(m, i + 1)
    ELSE IF m.kernel.clock = kClocks[i]
         THEN SetupClockFrom_ContinuesPastCurrent(m, i + 1)
    ELSE SetClock(m, kClocks[i])

RECURSIVE SetupClockFrom(_, _)
SetupClockFrom(m, i) ==
    IF i > Len(kClocks) THEN m
    ELSE IF kClocks[i] \notin m.kernel.available_clocks THEN SetupClockFrom(m, i + 1)
    ELSE IF m.kernel.clock = kClocks[i] THEN m
    ELSE SetClock(m, kClocks[i])

SetupClock(m) == SetupClockFrom(m, 1)

SetupBufferSize(m, request) ==
    LET pages == ComputeCpuBufferSizeInPages(request.buffer_size_kb)
    IN [SetCpuBufferSizeInPages(m, pages)
            EXCEPT !.current_state.cpu_buffer_size_pages = pages]

AtraceStartArgs(request) ==
    <<"atrace", "--async_start">> \o request.atrace_categories
        \o (IF request.atrace_apps # <<>>
            THEN <<"-a">> \o request.atrace_apps ELSE <<>>)

\* Mutant: the helper is started but current_state_.atrace_on is not set.
EnableAtrace_ForgetsFlag(m, request, env) ==
    IF m.dcheck_on /\ m.current_state.atrace_on THEN Abort(m)
    ELSE LET m2 == RunAtrace(m, AtraceStartArgs(request), env.atrace_ok)
         IN IF env.atrace_ok THEN m2 ELSE Abort(m2)

EnableAtrace(m, request, env) ==
    IF m.dcheck_on /\ m.current_state.atrace_on THEN Abort(m)
    ELSE LET m1 == [m EXCEPT !.current_state.atrace_on = TRUE]
             m2 == RunAtrace(m1, AtraceStartArgs(request), env.atrace_ok)
         IN IF env.atrace_ok THEN m2 ELSE Abort(m2)

EnableAtraceOnAndroid(m, request, env) ==
    IF m.os_android THEN EnableAtrace(m, request, env) ELSE m

(***************************************************************************)
(* RequestConfig.                                                          *)
(***************************************************************************)
\* Mutant: the event is inserted whatever EnableEvent returned.
EnableOneEvent_IgnoresResult(m, name, env) ==
    LET event == GetEventByName(name)
    IN IF event = NoEvent THEN m
       ELSE IF name \in m.current_state.ftrace_events \/ event.group = "ftrace"
            THEN [m EXCEPT !.actual = @ \cup {name}]
       ELSE [EnableEvent(m, event, name \in env.enable_ok)
                 EXCEPT !.current_state.ftrace_events = @ \cup {name},
                        !.actual = @ \cup {name}]

\* Mutant: a name the catalog does not know is tried in the kernel too.
EnableOneEvent_SkipsLookup(m, name, env) ==
    LET found == GetEventByName(name)
        event == IF found = NoEvent
                 THEN [group |-> "unknown", name |-> name] ELSE found
    IN IF name \in m.current_state.ftrace_events \/ event.group = "ftrace"
       THEN [m EXCEPT !.actual = @ \cup {name}]
       ELSE LET ok == name \in env.enable_ok
                m1 == EnableEvent(m, event, ok)
            IN IF ok
               THEN [m1 EXCEPT !.current_state.ftrace_events = @ \cup {name},
                               !.actual = @ \cup {name}]
               ELSE m1

\* Mutant: the events of the "ftrace" group are enabled like any other.
EnableOneEvent_TogglesFtraceGroup(m, name, env) ==
    LET event == GetEventByName(name)
    IN IF event = NoEvent THEN m
       ELSE IF name \in m.current_state.ftrace_events
            THEN [m EXCEPT !.actual = @ \cup {name}]
       ELSE LET ok == name \in env.enable_ok
                m1 == EnableEvent(m, event, ok)
            IN IF ok
               THEN [m1 EXCEPT !.current_state.ftrace_events = @ \cup {name},
                               !.actual = @ \cup {name}]
               ELSE m1

\* One iteration of the loop over the requested events.
EnableOneEvent(m, name, env) ==
    LET event == GetEventByName(name)
    IN IF event = NoEvent THEN m
       ELSE IF name \in m.current_state.ftrace_events \/ event.group = "ftrace"
            THEN [m EXCEPT !.actual = @ \cup {name}]
       ELSE LET ok == name \in env.enable_ok
                m1 == EnableEvent(m, event, ok)
            IN IF ok
               THEN [m1 EXCEPT !.current_state.ftrace_events = @ \cup {name},
                               !.actual = @ \cup {name}]
               ELSE m1

RECURSIVE EnableEvents(_, _, _)
EnableEvents(m, events, env) ==
    IF events = <<>> THEN m
    ELSE EnableEvents(EnableOneEvent(m, Head(events), env), Tail(events), env)

\* Mutant: tracing is enabled but current_state_.tracing_on is not set.
StartTracing_KeepsFlag(m, env) ==
    IF DOMAIN m.configs = {} THEN EnableTracing(m) ELSE m

\* Mutant: tracing is enabled by every request that gets this far.
StartTracing_Always(m, env) ==
    [EnableTracing(m) EXCEPT !.current_state.tracing_on = TRUE]

\* if (configs_.empty()) { EnableTracing(); tracing_on = true; }
StartTracing(m, env) ==
    IF DOMAIN m.configs = {}
    THEN IF m.dcheck_on /\ m.current_state.tracing_on THEN Abort(m)
         ELSE [EnableTracing(m) EXCEPT !.current_state.tracing_on = TRUE]
    ELSE m

\* Mutant: the id is the lowest one not in the table instead of ++last_id_.
StoreConfig_ReusesFreedId(m) ==
    LET id == CHOOSE i \in 1..(m.last_id + 1) :
                  /\ i \notin DOMAIN m.configs
                  /\ \A j \in 1..(i - 1) : j \in DOMAIN m.configs
    IN [m EXCEPT !.last_id = Cardinality(DOMAIN m.configs) + 1,
                 !.configs = (id :> m.actual) @@ @,
                 !.ret_id = id]

\* FtraceConfigId id = ++last_id_; configs_.emplace(id, actual); return id;
StoreConfig(m) ==
    LET id == m.last_id + 1
    IN [m EXCEPT !.last_id = id,
                 !.configs = (id :> m.actual) @@ @,
                 !.ret_id = id]

\* Mutant: the buffer size is set before the clock.
ColdStartSetup_BufferBeforeClock(m, request, env) ==
    LET m1 == IF RequiresAtrace(request)
              THEN EnableAtraceOnAndroid(m, request, env) ELSE m
    IN IF m1.alive THEN SetupClock(SetupBufferSize(m1, request)) ELSE m1

\* The one-shot session setup of the cold-start branch.
ColdStartSetup(m, request, env) ==
    LET m1 == IF RequiresAtrace(request)
              THEN EnableAtraceOnAndroid(m, request, env) ELSE m
    IN IF m1.alive THEN SetupBufferSize(SetupClock(m1), request) ELSE m1

\* Mutant: the cold-start branch does not look at is_ftrace_enabled.
RequestRejected_WarmOnly(m, is_ftrace_enabled) ==
    IF DOMAIN m.configs = {} THEN FALSE ELSE ~is_ftrace_enabled

\* Mutant: the warm branch does not look at is_ftrace_enabled.
RequestRejected_ColdOnly(m, is_ftrace_enabled) ==
    IF DOMAIN m.configs = {} THEN is_ftrace_enabled ELSE FALSE

\* TRUE iff RequestConfig gives up after reading IsTracingEnabled.
RequestRejected(m, is_ftrace_enabled) ==
    IF DOMAIN m.configs = {} THEN is_ftrace_enabled ELSE ~is_ftrace_enabled

RequestConfig(m, request, env) ==
    LET is_ftrace_enabled == IsTracingEnabled(m)
        cold == DOMAIN m.configs = {}
    IN IF cold /\ m.dcheck_on /\ m.current_state.tracing_on THEN Abort(m)
       ELSE IF RequestRejected(m, is_ftrace_enabled) THEN [m EXCEPT !.ret_id = 0]
       ELSE LET m1 == IF cold THEN ColdStartSetup(m, request, env) ELSE m
                m2 == IF m1.alive
                      THEN EnableEvents(m1, InOrder(GetFtraceEvents(request)), env)
                      ELSE m1
                m3 == IF m2.alive THEN StartTracing(m2, env) ELSE m2
            IN IF m3.alive THEN StoreConfig(m3) ELSE m3

(***************************************************************************)
(* RemoveConfig.                                                           *)
(***************************************************************************)
\* The union of the event names of the configs still in the table.
ExpectedFtraceEvents(cfgs) == UNION {cfgs[i] : i \in DOMAIN cfgs}

\* Mutant: a disabled event is not erased from ftrace_events.
DisableOneEvent_KeepsEntry(m, name, env) ==
    LET event == GetEventByName(name)
    IN IF event = NoEvent THEN m
       ELSE DisableEvent(m, event, name \in env.disable_ok)

\* One iteration of the loop over events_to_disable.
DisableOneEvent(m, name, env) ==
    LET event == GetEventByName(name)
    IN IF event = NoEvent THEN m
       ELSE LET ok == name \in env.disable_ok
                m1 == DisableEvent(m, event, ok)
            IN IF ok
               THEN [m1 EXCEPT !.current_state.ftrace_events = @ \ {name}]
               ELSE m1

RECURSIVE DisableEvents(_, _, _)
DisableEvents(m, events, env) ==
    IF events = <<>> THEN m
    ELSE DisableEvents(DisableOneEvent(m, Head(events), env), Tail(events), env)

\* m.atrace_on_at_disable collects the values of current_state_.atrace_on
\* the PERFETTO_DCHECK at the entry of DisableAtrace is evaluated on.
DisableAtrace(m, env) ==
    LET m0 == [m EXCEPT !.atrace_on_at_disable =
                            @ \cup {m.current_state.atrace_on}]
    IN IF m0.dcheck_on /\ m0.current_state.atrace_on THEN Abort(m0)
       ELSE LET m1 == RunAtrace(m0, <<"atrace", "--async_stop">>, env.atrace_ok)
            IN IF env.atrace_ok
               THEN [m1 EXCEPT !.current_state.atrace_on = FALSE]
               ELSE Abort(m1)

DisableAtraceOnAndroid(m, env) ==
    IF m.os_android THEN DisableAtrace(m, env) ELSE m

\* The body of the last if (configs_.empty()) of RemoveConfig.
Teardown(m, env) ==
    IF m.dcheck_on /\ ~m.current_state.tracing_on THEN Abort(m)
    ELSE LET m1 == ClearTrace(DisableAllEvents(
                       SetCpuBufferSizeInPages(DisableTracing(m), 0)))
             m2 == [m1 EXCEPT !.current_state.tracing_on = FALSE]
         IN IF m2.current_state.atrace_on
            THEN DisableAtraceOnAndroid(m2, env) ELSE m2

\* Mutant: only id 0 is rejected.
RemoveRejected_ZeroOnly(m, id) == id = 0

\* if (!id || !configs_.erase(id)) return false;
RemoveRejected(m, id) == id = 0 \/ id \notin DOMAIN m.configs

RemoveConfig(m, id, env) ==
    IF RemoveRejected(m, id) THEN [m EXCEPT !.ret_ok = FALSE]
    ELSE LET m1 == [m EXCEPT !.configs = [i \in DOMAIN @ \ {id} |-> @[i]]]
             expected_ftrace_events == ExpectedFtraceEvents(m1.configs)
             events_to_disable ==
                 difference(m1.current_state.ftrace_events, expected_ftrace_events)
             m2 == DisableEvents(m1, events_to_disable, env)
             m3 == IF DOMAIN m2.configs = {} THEN Teardown(m2, env) ELSE m2
         IN IF m3.alive THEN [m3 EXCEPT !.ret_ok = TRUE] ELSE m3

(***************************************************************************)
(* The state machine.                                                      *)
(***************************************************************************)
\* The arguments of RequestConfig that are tried.
BufferSizesKb == {0, 2, 8192}
PlainRequests ==
    {[event_names |-> e, buffer_size_kb |-> 0,
      atrace_categories |-> <<>>, atrace_apps |-> <<>>] :
        e \in SUBSET {"sched_switch", "sched_wakeup"}
               \cup {{"print"}, {"print", "sched_switch"},
                     {"does_not_exist", "sched_switch"}}}
SizedRequests ==
    {[event_names |-> {"sched_switch"}, buffer_size_kb |-> b,
      atrace_categories |-> <<>>, atrace_apps |-> <<>>] : b \in BufferSizesKb}
AtraceRequests ==
    {[event_names |-> {}, buffer_size_kb |-> 0,
      atrace_categories |-> <<"gfx">>, atrace_apps |-> <<>>],
     [event_names |-> {}, buffer_size_kb |-> 0,
      atrace_categories |-> <<>>, atrace_apps |-> <<"com.app">>],
     [event_names |-> {"sched_wakeup"}, buffer_size_kb |-> 0,
      atrace_categories |-> <<"gfx">>, atrace_apps |-> <<"com.app">>]}
Requests == PlainRequests \cup SizedRequests \cup AtraceRequests

NoRequest ==
    [event_names |-> {}, buffer_size_kb |-> 0,
     atrace_categories |-> <<>>, atrace_apps |-> <<>>]

\* The answers of the environment during one operation: the exit status of
\* the atrace helper and the events whose EnableEvent / DisableEvent write
\* succeeds.  Only answers the operation can ask for are enumerated.
RequestEnvs(request) ==
    [atrace_ok : IF RequiresAtrace(request) /\ os_android /\ DOMAIN configs = {}
                 THEN BOOLEAN ELSE {TRUE},
     enable_ok : SUBSET ((GetFtraceEvents(request) \cap ToggledEvents)
                             \ current_state.ftrace_events),
     disable_ok : {{}}]

RemoveEnvs ==
    [atrace_ok : IF current_state.atrace_on THEN BOOLEAN ELSE {TRUE},
     enable_ok : {{}},
     disable_ok : SUBSET current_state.ftrace_events]

\* The record an operation starts from.
M == [configs |-> configs, current_state |-> current_state, last_id |-> last_id,
      os_android |-> os_android, dcheck_on |-> dcheck_on, alive |-> alive,
      kernel |-> kernel,
      calls |-> <<>>, actual |-> {}, ret_id |-> 0, ret_ok |-> FALSE,
      atrace_on_at_disable |-> {}]

Calls(r, f) == {r.calls[i] : i \in {j \in 1..Len(r.calls) : r.calls[j].f = f}}

\* What an operation that ended in r leaves behind.
Commit(r, op, request, id) ==
    /\ configs' = r.configs
    /\ current_state' = r.current_state
    /\ last_id' = r.last_id
    /\ alive' = r.alive
    /\ kernel' = r.kernel
    /\ last' = [op |-> op, request |-> request, id |-> id,
                cold |-> DOMAIN configs = {},
                is_ftrace_enabled |-> kernel.tracing_on,
                ret_id |-> r.ret_id, ret_ok |-> r.ret_ok, calls |-> r.calls,
                atrace_on_at_disable |-> r.atrace_on_at_disable]
    /\ issued' = IF r.ret_id # 0 THEN Append(issued, r.ret_id) ELSE issued
    /\ enabled_by_muxer' =
           enabled_by_muxer \cup {c.name : c \in {d \in Calls(r, "EnableEvent") : d.ok}}
    /\ disable_failed' =
           (disable_failed \/ \E c \in Calls(r, "DisableEvent") : ~c.ok)
    /\ UNCHANGED <<os_android, dcheck_on, buffer_call>>

InitialClocks == {"local", "boot"}
AvailableClockSets == {{"boot", "global", "local"}, {"global", "local"}}

NoBufferCall == [requested_buffer_size_kb |-> 0, returned |-> FALSE, pages |-> 0]

\* The muxer after construction, in any build.
InitMuxer ==
    /\ configs = << >>
    /\ current_state = [ftrace_events |-> {}, tracing_on |-> FALSE,
                        atrace_on |-> FALSE, cpu_buffer_size_pages |-> 0]
    /\ last_id = 0
    /\ os_android \in BOOLEAN
    /\ dcheck_on \in BOOLEAN
    /\ alive = TRUE
    /\ last = [op |-> "none", request |-> NoRequest, id |-> 0, cold |-> TRUE,
               is_ftrace_enabled |-> FALSE,
               ret_id |-> 0, ret_ok |-> FALSE, calls |-> <<>>,
               atrace_on_at_disable |-> {}]
    /\ issued = <<>>
    /\ enabled_by_muxer = {}
    /\ disable_failed = FALSE

Init ==
    /\ InitMuxer
    /\ kernel \in [tracing_on : {FALSE}, events : {{}}, clock : InitialClocks,
                   available_clocks : AvailableClockSets, buffer_pages : {0}]
    /\ buffer_call = NoBufferCall

DoRequestConfig ==
    /\ alive
    /\ last_id < MaxId
    /\ \E request \in Requests : \E env \in RequestEnvs(request) :
           Commit(RequestConfig(M, request, env), "RequestConfig", request, 0)

DoRemoveConfig ==
    /\ alive
    /\ \E id \in 0..MaxId, env \in RemoveEnvs :
           Commit(RemoveConfig(M, id, env), "RemoveConfig", NoRequest, id)

\* Someone outside of perfetto turns ftrace on or off.
Foreign ==
    /\ alive
    /\ kernel' = [kernel EXCEPT !.tracing_on = ~@]
    /\ last' = [op |-> "Foreign", request |-> NoRequest, id |-> 0,
                cold |-> DOMAIN configs = {},
                is_ftrace_enabled |-> kernel.tracing_on,
                ret_id |-> 0, ret_ok |-> FALSE, calls |-> <<>>,
                atrace_on_at_disable |-> {}]
    /\ UNCHANGED <<configs, current_state, last_id, os_android, dcheck_on,
                   alive, issued, enabled_by_muxer, disable_failed,
                   buffer_call>>

Next == DoRequestConfig \/ DoRemoveConfig \/ Foreign

Spec == Init /\ [][Next]_vars

(***************************************************************************)
(* The muxer when nobody else writes to the control surface.               *)
(***************************************************************************)
NextSolo == DoRequestConfig \/ DoRemoveConfig

SpecSolo == Init /\ [][NextSolo]_vars

(***************************************************************************)
(* SetupClock on every current clock and every set of available clocks.    *)
(***************************************************************************)
ClockNames == {"boot", "global", "local", "x86-tsc"}

InitClock ==
    /\ InitMuxer
    /\ kernel \in [tracing_on : {FALSE}, events : {{}}, clock : ClockNames,
                   available_clocks : SUBSET ClockNames, buffer_pages : {0}]
    /\ buffer_call = NoBufferCall

DoSetupClock ==
    LET r == SetupClock(M)
    IN /\ kernel' = r.kernel
       /\ last' = [last EXCEPT !.op = "SetupClock", !.calls = r.calls]
       /\ UNCHANGED <<configs, current_state, last_id, os_android, dcheck_on,
                      alive, issued, enabled_by_muxer, disable_failed,
                      buffer_call>>

SpecClock == InitClock /\ [][DoSetupClock]_vars

(***************************************************************************)
(* ComputeCpuBufferSizeInPages on every size up to MaxBufferKb.            *)
(***************************************************************************)
InitBuffer ==
    /\ InitMuxer
    /\ kernel = [tracing_on |-> FALSE, events |-> {}, clock |-> "local",
                 available_clocks |-> {"local"}, buffer_pages |-> 0]
    /\ buffer_call \in [requested_buffer_size_kb : 0..MaxBufferKb,
                        returned : {FALSE}, pages : {0}]

DoComputeCpuBufferSizeInPages ==
    /\ ~buffer_call.returned
    /\ buffer_call' =
           [buffer_call EXCEPT
                !.returned = TRUE,
                !.pages = ComputeCpuBufferSizeInPages(
                              buffer_call.requested_buffer_size_kb)]
    /\ UNCHANGED <<configs, current_state, last_id, os_android, dcheck_on,
                   alive, kernel, last, issued, enabled_by_muxer,
                   disable_failed>>

SpecBuffer == InitBuffer /\ [][DoComputeCpuBufferSizeInPages]_vars

(***************************************************************************)
(* Properties.                                                             *)
(***************************************************************************)
\* The union of the accepted event names of the active configs.
AcceptedUnion == UNION {configs[i] : i \in DOMAIN configs}

\* The names the catalog puts in the "ftrace" group.
FtraceGroupNames == {n \in Names : GetEventByName(n).group = "ftrace"}

\* The names of the calls of function f of the last operation.
CalledNames(l, f) == {c.name : c \in Calls(l, f)}

InitialState ==
    [ftrace_events |-> {}, tracing_on |-> FALSE,
     atrace_on |-> FALSE, cpu_buffer_size_pages |-> 0]

\* C1: between operations, whatever the operations and the answers of the
\* control surface were, tracing_on is true iff the config table is non-empty.
C1_TracingOnIffConfigs ==
    current_state.tracing_on <=> (DOMAIN configs # {})

\* A rejected request arrived while a config was active and tracing_on is
\* still set.
C1_Witness ==
    /\ last.op = "RequestConfig" /\ last.ret_id = 0 /\ ~last.cold
    /\ current_state.tracing_on /\ DOMAIN configs # {}

\* C2: a RequestConfig that finds tracing enabled while the table is empty
\* returns 0, issues no call at all (control surface or atrace helper) and
\* leaves configs, CurrentState, the id counter and the kernel as they were.
C2_ColdStartRejection ==
    [][(last'.op = "RequestConfig" /\ DOMAIN configs = {} /\ kernel.tracing_on)
           => /\ last'.ret_id = 0
              /\ last'.calls = <<>>
              /\ alive'
              /\ UNCHANGED <<configs, current_state, last_id, kernel>>]_vars

\* A request that requires atrace was rejected at cold start on Android.
C2_Witness ==
    /\ last.op = "RequestConfig" /\ last.cold /\ last.is_ftrace_enabled
    /\ RequiresAtrace(last.request) /\ os_android
    /\ last.ret_id = 0

\* C3: a RequestConfig that finds tracing disabled while the table is
\* non-empty returns 0 and changes nothing: no call is issued, and configs,
\* CurrentState, the id counter and the kernel-side events are as before.
C3_WarmRejection ==
    [][(last'.op = "RequestConfig" /\ DOMAIN configs # {} /\ ~kernel.tracing_on)
           => /\ last'.ret_id = 0
              /\ last'.calls = <<>>
              /\ alive'
              /\ UNCHANGED <<configs, current_state, last_id, kernel>>]_vars

\* A request naming an event that is not enabled yet was rejected while a
\* config was active.
C3_Witness ==
    /\ last.op = "RequestConfig" /\ ~last.cold /\ ~last.is_ftrace_enabled
    /\ last.ret_id = 0
    /\ (last.request.event_names \cap ToggledEvents)
           \ current_state.ftrace_events # {}

C5_IdleStateClean ==
    (alive /\ DOMAIN configs = {})
        => /\ current_state.ftrace_events = {}
           /\ ~current_state.atrace_on
           /\ ~current_state.tracing_on

\* C6 (as claimed): whenever every accepted config has been removed again,
\* CurrentState equals the initial state, cpu_buffer_size_pages included.
C6_BalancedReturnsToIdle ==
    (alive /\ DOMAIN configs = {}) => current_state = InitialState

\* C7 (as claimed), in the states where a config is active: ftrace_events
\* equals the union of the accepted names without the "ftrace" group.
C7_EventUnionExact ==
    DOMAIN configs # {}
        => current_state.ftrace_events = AcceptedUnion \ FtraceGroupNames

\* C7 (amended): ftrace_events contains the union of the accepted names of
\* the active configs without the "ftrace" group, and equals it as long as
\* no DisableEvent call has returned failure.
C7_EventUnion ==
    /\ AcceptedUnion \ FtraceGroupNames \subseteq current_state.ftrace_events
    /\ ~disable_failed
           => current_state.ftrace_events = AcceptedUnion \ FtraceGroupNames

\* After a removal that left a config active: an "ftrace" group event is
\* accepted, and ftrace_events is non-empty and equal to the rest.
C7_Witness ==
    /\ last.op = "RemoveConfig" /\ last.ret_ok /\ ~disable_failed
    /\ DOMAIN configs # {}
    /\ AcceptedUnion \cap FtraceGroupNames # {}
    /\ current_state.ftrace_events # {}
    /\ CalledNames(last, "DisableEvent") # {}

\* C8 (as claimed): ftrace_events contains every accepted name of every
\* active config, and each of its members was enabled by this muxer.
C8_SupersetOfAccepted ==
    /\ AcceptedUnion \subseteq current_state.ftrace_events
    /\ current_state.ftrace_events \subseteq enabled_by_muxer

\* C8 (amended): ftrace_events contains every accepted name of every active
\* config whose catalog group is not "ftrace", and each of its members was
\* inserted in a RequestConfig whose EnableEvent call for it succeeded.
C8_SupersetOfToggledAccepted ==
    /\ [](AcceptedUnion \ FtraceGroupNames \subseteq current_state.ftrace_events)
    /\ [](current_state.ftrace_events \subseteq enabled_by_muxer)
    /\ [][\A n \in current_state.ftrace_events' \ current_state.ftrace_events :
              /\ last'.op = "RequestConfig"
              /\ \E c \in Calls(last', "EnableEvent") : c.name = n /\ c.ok]_vars

\* A config holds an "ftrace" group event and an event EnableEvent succeeded
\* for, while another EnableEvent of the same request failed.
C8_Witness ==
    /\ last.op = "RequestConfig" /\ last.ret_id # 0
    /\ AcceptedUnion \cap FtraceGroupNames # {}
    /\ current_state.ftrace_events # {}
    /\ \E c \in Calls(last, "EnableEvent") : ~c.ok

\* C9: a RemoveConfig that leaves a config active calls DisableEvent exactly
\* for the events of ftrace_events that no remaining config lists; those
\* whose call succeeds leave ftrace_events; the events a remaining config
\* lists are not disabled and stay in ftrace_events and enabled in the
\* kernel; nothing else is called.
C9_PartialRemoveDisablesOrphans ==
    [][(last'.op = "RemoveConfig" /\ last'.ret_ok /\ DOMAIN configs' # {})
           => LET before == current_state.ftrace_events
                  still == AcceptedUnion'
              IN /\ CalledNames(last', "DisableEvent") = before \ still
                 /\ \A c \in Calls(last', "DisableEvent") :
                        c.ok <=> c.name \notin current_state.ftrace_events'
                 /\ \A n \in before \cap still :
                        /\ n \in current_state.ftrace_events'
                        /\ (n \in kernel.events => n \in kernel'.events)
                 /\ \A i \in 1..Len(last'.calls) :
                        last'.calls[i].f = "DisableEvent"]_vars

\* Removing one of two overlapping configs disabled its exclusive event and
\* kept the shared one.
C9_Witness ==
    /\ last.op = "RemoveConfig" /\ last.ret_ok /\ DOMAIN configs # {}
    /\ \E c \in Calls(last, "DisableEvent") : c.name = "sched_wakeup" /\ c.ok
    /\ "sched_switch" \in current_state.ftrace_events
    /\ "sched_switch" \in AcceptedUnion

\* C10: a RemoveConfig that returns, returns true iff its id is in the
\* table; for any other id (0, never issued, already removed) it returns
\* false, issues no call and changes neither configs nor CurrentState.
C10_RemoveUnknownId ==
    [][last'.op = "RemoveConfig"
           => /\ alive' => (last'.ret_ok <=> last'.id \in DOMAIN configs)
              /\ last'.id \notin DOMAIN configs
                     => /\ alive' /\ ~last'.ret_ok
                        /\ last'.calls = <<>>
                        /\ UNCHANGED <<configs, current_state, last_id, kernel>>
              /\ last'.ret_ok => last'.id \notin DOMAIN configs']_vars

\* An id that had been issued and removed was removed a second time.
C10_Witness ==
    /\ last.op = "RemoveConfig" /\ ~last.ret_ok /\ alive
    /\ last.id # 0 /\ last.id <= last_id
    /\ DOMAIN configs # {}

\* The effective event set of a request.
EffectiveEvents(request) ==
    request.event_names
        \cup (IF request.atrace_categories # <<>> \/ request.atrace_apps # <<>>
              THEN {"print"} ELSE {})

\* The f fields of a sequence of calls.
Functions(calls) == [i \in 1..Len(calls) |-> calls[i].f]

\* n copies of x.
Repeat(x, n) == [i \in 1..n |-> x]

\* C11: the accepted config of an accepted request holds exactly the names
\* of its effective event set that the catalog knows and that were already
\* in ftrace_events, are in the "ftrace" group, or were enabled by a
\* successful EnableEvent of this call; EnableEvent is called for known
\* names only; a name whose EnableEvent failed is neither accepted nor in
\* ftrace_events; and a request that is not rejected and does not abort
\* returns a non-zero id whatever EnableEvent answered.
C11_AcceptedConfig ==
    [][last'.op = "RequestConfig"
           => LET request == last'.request
                  enable == Calls(last', "EnableEvent")
              IN /\ \A c \in enable : GetEventByName(c.name) # NoEvent
                 /\ \A c \in enable :
                        ~c.ok => c.name \notin current_state.ftrace_events'
                 /\ (alive' /\ ((DOMAIN configs = {}) <=> ~kernel.tracing_on))
                        => last'.ret_id # 0
                 /\ last'.ret_id # 0 =>
                        /\ configs'[last'.ret_id] =
                               {n \in EffectiveEvents(request) :
                                    /\ GetEventByName(n) # NoEvent
                                    /\ \/ n \in current_state.ftrace_events
                                       \/ GetEventByName(n).group = "ftrace"
                                       \/ \E c \in enable : c.name = n /\ c.ok}
                        /\ \A c \in enable :
                               ~c.ok => c.name \notin configs'[last'.ret_id]]_vars

\* An accepted request named an unknown event and an event whose
\* EnableEvent failed; neither is in its accepted config.
C11_Witness ==
    /\ last.op = "RequestConfig" /\ last.ret_id # 0
    /\ "does_not_exist" \in last.request.event_names
    /\ \E c \in Calls(last, "EnableEvent") : ~c.ok
    /\ configs[last.ret_id] = {}

\* C12 (as claimed): a RemoveConfig that removes the last config issues,
\* after one DisableEvent per event of ftrace_events, DisableTracing,
\* SetCpuBufferSizeInPages(0), DisableAllEvents and ClearTrace once each in
\* this order, clears tracing_on and then, iff atrace_on was set, runs the
\* atrace stop and (unless the helper fails) clears atrace_on; a RemoveConfig
\* that leaves a config active issues none of these calls.
C12_TeardownOrder ==
    [][(last'.op = "RemoveConfig" /\ last'.id \in DOMAIN configs)
           => IF DOMAIN configs = {last'.id}
              THEN /\ Functions(last'.calls) =
                          Repeat("DisableEvent",
                                 Cardinality(current_state.ftrace_events))
                          \o <<"DisableTracing", "SetCpuBufferSizeInPages",
                               "DisableAllEvents", "ClearTrace">>
                          \o (IF current_state.atrace_on
                              THEN <<"RunAtrace">> ELSE <<>>)
                   /\ \A c \in Calls(last', "SetCpuBufferSizeInPages") : c.n = 0
                   /\ \A c \in Calls(last', "RunAtrace") :
                          c.args = <<"atrace", "--async_stop">>
                   /\ ~current_state.tracing_on'
                   /\ (\A c \in Calls(last', "RunAtrace") : c.ok)
                          => ~current_state.atrace_on'
              ELSE /\ \A i \in 1..Len(last'.calls) :
                          last'.calls[i].f = "DisableEvent"
                   /\ current_state.tracing_on' = current_state.tracing_on
                   /\ current_state.atrace_on' = current_state.atrace_on]_vars

C14_BufferPolicy ==
    buffer_call.returned
        => LET r == buffer_call.requested_buffer_size_kb
               e == IF r = 0 \/ r > 2048 THEN 512 ELSE r
               q == e \div kPageSizeKb
               of512 == 512 \div kPageSizeKb
           IN /\ buffer_call.pages = (IF q >= 1 THEN q ELSE 1)
              /\ buffer_call.pages >= 1
              /\ (r = 0 \/ r > 2048) => buffer_call.pages = of512
              /\ buffer_call.pages * kPageSizeKb <= 2048

\* The first size above the ceiling was computed and gave the default.
C14_Witness ==
    /\ buffer_call.returned
    /\ buffer_call.requested_buffer_size_kb = 2049
    /\ buffer_call.pages = 128

\* C15: SetupClock calls SetClock at most once: with the first of boot,
\* global, local that is available, and only if that clock is not the
\* current one; otherwise (the target is current, or none of the three is
\* available) it calls nothing and the clock stays.
C15_ClockSelection ==
    [][last'.op = "SetupClock"
           => LET avail == kernel.available_clocks
                  target == IF "boot" \in avail THEN "boot"
                            ELSE IF "global" \in avail THEN "global"
                            ELSE IF "local" \in avail THEN "local"
                            ELSE "none"
                  write == target # "none" /\ target # kernel.clock
              IN /\ last'.calls =
                        IF write
                        THEN <<[f |-> "SetClock", name |-> target, n |-> 0,
                                ok |-> TRUE, args |-> <<>>]>>
                        ELSE <<>>
                 /\ kernel'.clock = IF write THEN target ELSE kernel.clock]_vars

\* SetupClock wrote nothing although a less preferred clock than the
\* current one is available.
C15_Witness ==
    /\ last.op = "SetupClock" /\ last.calls = <<>>
    /\ kernel.clock = "global"
    /\ {"global", "local"} \subseteq kernel.available_clocks
    /\ "boot" \notin kernel.available_clocks

\* The place of a control-surface function in the cold-start sequence.
Rank(f) ==
    CASE f = "RunAtrace" -> 1
      [] f = "SetClock" -> 2
      [] f = "SetCpuBufferSizeInPages" -> 3
      [] f = "EnableEvent" -> 4
      [] f = "EnableTracing" -> 5
      [] OTHER -> 0

\* How many calls of f a sequence of calls holds.
Count(calls, f) == Cardinality({i \in 1..Len(calls) : calls[i].f = f})

\* C16: an accepted cold-start RequestConfig issues, in this order, the
\* atrace start (only if the request requires atrace), at most one SetClock,
\* one SetCpuBufferSizeInPages with the computed page count, its EnableEvent
\* calls and, last, one EnableTracing; and EnableTracing is issued by no
\* other operation, so once between an Idle-to-Active transition and the
\* following teardown.
C16_ColdStartOrder ==
    [][LET calls == last'.calls
           request == last'.request
       IN /\ (last'.op = "RequestConfig" /\ DOMAIN configs = {}
                  /\ last'.ret_id # 0)
                 => /\ \A i \in 1..Len(calls) : Rank(calls[i].f) > 0
                    /\ \A i, j \in 1..Len(calls) :
                           i < j => Rank(calls[i].f) <= Rank(calls[j].f)
                    /\ Count(calls, "RunAtrace") =
                           (IF (request.atrace_categories # <<>>
                                   \/ request.atrace_apps # <<>>) /\ os_android
                            THEN 1 ELSE 0)
                    /\ \A c \in Calls(last', "RunAtrace") :
                           c.name = "--async_start" /\ c.ok
                    /\ Count(calls, "SetClock") <= 1
                    /\ Count(calls, "SetCpuBufferSizeInPages") = 1
                    /\ \A c \in Calls(last', "SetCpuBufferSizeInPages") :
                           c.n = ComputeCpuBufferSizeInPages(request.buffer_size_kb)
                    /\ Count(calls, "EnableTracing") = 1
                    /\ calls[Len(calls)].f = "EnableTracing"
          /\ Count(calls, "EnableTracing") > 0
                 => /\ last'.op = "RequestConfig" /\ last'.ret_id # 0
                    /\ DOMAIN configs = {} /\ DOMAIN configs' # {}
          /\ (DOMAIN configs = {} /\ DOMAIN configs' # {})
                 => Count(calls, "EnableTracing") = 1]_vars

\* A cold start that went through every stage of the sequence.
C16_Witness ==
    /\ last.op = "RequestConfig" /\ last.cold /\ last.ret_id # 0
    /\ Functions(last.calls) =
           <<"RunAtrace", "SetClock", "SetCpuBufferSizeInPages",
             "EnableEvent", "EnableTracing">>

\* C17: an event of the "ftrace" group is in the accepted config of every
\* accepted request whose effective event set names it, but is never passed
\* to EnableEvent, never in ftrace_events and never passed to DisableEvent.
C17_FtraceGroupNotToggled ==
    [][/\ last'.ret_id # 0
              => (EffectiveEvents(last'.request) \cap FtraceGroupNames)
                     \subseteq configs'[last'.ret_id]
       /\ CalledNames(last', "EnableEvent") \cap FtraceGroupNames = {}
       /\ CalledNames(last', "DisableEvent") \cap FtraceGroupNames = {}
       /\ current_state.ftrace_events' \cap FtraceGroupNames = {}]_vars

\* While a config that holds "print" stays active, the removal of another
\* config disabled the event that config had enabled, and nothing else.
C17_Witness ==
    /\ last.op = "RemoveConfig" /\ last.ret_ok
    /\ CalledNames(last, "DisableEvent") = {"sched_switch"}
    /\ \E i \in DOMAIN configs : "print" \in configs[i]
    /\ "sched_switch" \in enabled_by_muxer

\* C18 (as claimed): whenever DisableAtrace is entered, atrace_on is false.
C18_DisableAtraceAssertion ==
    \A v \in last.atrace_on_at_disable : v = FALSE

\* C19: a RequestConfig made while a config is active, accepted or not,
\* calls nothing but EnableEvent (no SetClock, SetCpuBufferSizeInPages,
\* EnableTracing, atrace helper) and leaves cpu_buffer_size_pages, atrace_on,
\* tracing_on, the kernel clock and the kernel buffer size unchanged; its
\* accepted config is within its effective event set.
C19_WarmRequestFrame ==
    [][(last'.op = "RequestConfig" /\ DOMAIN configs # {})
           => /\ \A i \in 1..Len(last'.calls) : last'.calls[i].f = "EnableEvent"
              /\ current_state.cpu_buffer_size_pages'
                     = current_state.cpu_buffer_size_pages
              /\ current_state.atrace_on' = current_state.atrace_on
              /\ current_state.tracing_on' = current_state.tracing_on
              /\ kernel'.clock = kernel.clock
              /\ kernel'.buffer_pages = kernel.buffer_pages
              /\ kernel'.tracing_on = kernel.tracing_on
              /\ last'.ret_id # 0
                     => configs'[last'.ret_id]
                            \subseteq EffectiveEvents(last'.request)]_vars

\* A second request of a session asked for atrace on Android and was
\* accepted with "print" while atrace stays off.
C19_Witness ==
    /\ last.op = "RequestConfig" /\ ~last.cold /\ last.ret_id # 0
    /\ last.request.atrace_categories # <<>>
    /\ os_android /\ ~current_state.atrace_on
    /\ configs[last.ret_id] = {"print"}

\* C20 (as claimed): every event of the accepted config of an active config
\* that is not in the "ftrace" group is enabled in the kernel.
C20_AcceptedEventsEnabled ==
    \A i \in DOMAIN configs :
        \A n \in configs[i] :
            GetEventByName(n).group # "ftrace" => n \in kernel.events

====
